---- MODULE Spec2Model ----
(***************************************************************************)
(* A model of lap_notebook/resolver.py: LapResolver's construction        *)
(* (_bootstrap_concrete_dirs, _compute_ancestry, _build_index with         *)
(* _build_context_from_instance) and its two queries, get and records.     *)
(*                                                                         *)
(* Strings are sequences of tokens.  A token is a record [k, n]:           *)
(*   k = "sep"  the character "/"                                          *)
(*   k = "lit"  a run of plain characters n (no "/", "$" or "@")           *)
(*   k = "var"  the text "$n", a match of DOLLAR_RE                        *)
(*   k = "at"   the text "@n", a match of AT_RE                            *)
(* Dictionaries whose iteration order the code relies on (cfg.dirs,        *)
(* cfg.files, meta.instances) are sequences of records; the others are     *)
(* functions whose DOMAIN is the key set.                                  *)
(***************************************************************************)
EXTENDS Integers, Sequences, FiniteSets

VARIABLES cfg, meta, pc, varmap, concrete_dirs, bootPass, bootChanged,
          ancestry, ancPass, ancChanged, ancIdx,
          ctxOf, bfsIdx, bfsRun, ctx, to_visit, seen, visits,
          index, fileIdx, out

vars == <<cfg, meta, pc, varmap, concrete_dirs, bootPass, bootChanged,
          ancestry, ancPass, ancChanged, ancIdx,
          ctxOf, bfsIdx, bfsRun, ctx, to_visit, seen, visits,
          index, fileIdx, out>>

----------------------------------------------------------------------------
(* Tokens and strings *)

Sep == [k |-> "sep", n |-> "/"]
Lit(n) == [k |-> "lit", n |-> n]
Var(n) == [k |-> "var", n |-> n]
At(n) == [k |-> "at", n |-> n]

\* Optional[str] = None, and the empty class name
None == "None"

EmptyMap == [x \in {} |-> <<>>]

\* an Optional result the code tests against None
Some(v) == [some |-> TRUE, v |-> v]
Nothing == [some |-> FALSE]

\* {**a, **b}
Merge(a, b) == [x \in DOMAIN a \cup DOMAIN b |-> IF x \in DOMAIN b THEN b[x] ELSE a[x]]

\* d[key] = val
Put(d, key, val) == [x \in DOMAIN d \cup {key} |-> IF x = key THEN val ELSE d[x]]

\* '@' in s
HasAt(s) == \E i \in 1..Len(s) : s[i].k = "at"

\* a '$name' token is left in s
HasDollar(s) == \E i \in 1..Len(s) : s[i].k = "var"

\* os.path.isabs
isabs(s) == Len(s) > 0 /\ s[1] = Sep

RECURSIVE _expand_dollars(_, _)
_expand_dollars(s, vm) ==
  IF s = <<>> THEN <<>>
  ELSE LET t == Head(s)
           r == IF t.k = "var" /\ t.n \in DOMAIN vm THEN vm[t.n] ELSE <<t>>
       IN r \o _expand_dollars(Tail(s), vm)

\* "@" + name, the key of a placeholder context
AtKey(c) == "@" \o c

\* AT_RE.sub(repl, s) of _expand_placeholders
RECURSIVE SubAt(_, _)
SubAt(s, ph) ==
  IF s = <<>> THEN <<>>
  ELSE LET t == Head(s)
           r == IF t.k = "at" /\ AtKey(t.n) \in DOMAIN ph THEN <<Lit(ph[AtKey(t.n)])>> ELSE <<t>>
       IN r \o SubAt(Tail(s), ph)

\* path.split('/'): the components, each a token sequence (possibly empty)
RECURSIVE Split(_, _)
Split(s, cur) ==
  IF s = <<>> THEN <<cur>>
  ELSE IF Head(s) = Sep THEN <<cur>> \o Split(Tail(s), <<>>)
  ELSE Split(Tail(s), Append(cur, Head(s)))

Dot == <<Lit(".")>>
DotDot == <<Lit("..")>>

\* the body of 'for comp in comps' of posixpath.normpath: new_comps after comp
NormStep(c, new, slashes) ==
  IF c = <<>> \/ c = Dot THEN new
  ELSE IF c # DotDot \/ (slashes = 0 /\ new = <<>>)
          \/ (new # <<>> /\ new[Len(new)] = DotDot)
       THEN Append(new, c)
  ELSE IF new # <<>> THEN SubSeq(new, 1, Len(new) - 1)
  ELSE new

\* the loop of posixpath.normpath over the components
RECURSIVE NormComps(_, _, _)
NormComps(comps, new, slashes) ==
  IF comps = <<>> THEN new
  ELSE NormComps(Tail(comps), NormStep(Head(comps), new, slashes), slashes)

\* '/'.join(comps)
RECURSIVE JoinComps(_)
JoinComps(comps) ==
  IF comps = <<>> THEN <<>>
  ELSE IF Len(comps) = 1 THEN comps[1]
  ELSE comps[1] \o <<Sep>> \o JoinComps(Tail(comps))

\* os.path.normpath (POSIX)
normpath(s) ==
  IF s = <<>> THEN Dot
  ELSE LET slashes == IF ~isabs(s) THEN 0
                      ELSE IF Len(s) >= 2 /\ s[2] = Sep /\ ~(Len(s) >= 3 /\ s[3] = Sep) THEN 2
                      ELSE 1
           body == JoinComps(NormComps(Split(s, <<>>), <<>>, slashes))
           p == [i \in 1..slashes |-> Sep] \o body
       IN IF p = <<>> THEN Dot ELSE p

\* os.path.join of two parts
join(a, b) ==
  IF isabs(b) THEN b
  ELSE IF a = <<>> \/ a[Len(a)] = Sep THEN a \o b
  ELSE a \o <<Sep>> \o b

_norm_join(a, b) == normpath(join(a, b))

----------------------------------------------------------------------------
(* The parsed configuration and metadata the resolver is constructed from *)

\* number of parent links in the metadata
MaxLinks == 3
\* number of instance properties named like a file key
MaxProps == 2

\* LapResolver(cfg, meta, cwd): the working directory, an absolute path
Cwd == <<Sep, Lit("cwd")>>

InstNames == <<"i1", "i2", "i3">>
\* a name used as a parent that no metadata line declares as an instance
Ghost == "g0"
ParentNames == <<"i1", "i2", "i3", "g0">>
ClassNames == {"S", "C"}
FileKeys == {"summary_file", "orphan_file"}

SeqToSet(s) == {s[i] : i \in 1..Len(s)}

DirT(name, template, lvl) == [name |-> name, template |-> template, class_level |-> lvl]
FileT(name, tpl, dir_ref, lvl) == [name |-> name, tpl |-> tpl, dir_ref |-> dir_ref, class_level |-> lvl]
Inst(name, cls, parents, props) == [name |-> name, class_name |-> cls, parents |-> parents, props |-> props]

\* cfg.dirs of the configurations considered, in declaration order
DirConfigs ==
  { <<DirT("outdir", <<Var("base"), Sep, At("S")>>, None)>>,
    <<DirT("outdir", <<Var("base"), Sep, At("S")>>, "S")>>,
    <<DirT("outdir", <<Sep, Lit("abs"), Sep, Lit("out")>>, None)>>,
    <<DirT("outdir", <<Lit("rel"), Sep, Lit(".."), Sep, Lit("out")>>, None)>>,
    <<DirT("top", <<Sep, Lit("abs")>>, None), DirT("outdir", <<Var("top"), Sep, Lit("sub")>>, None)>>,
    <<DirT("outdir", <<Var("top"), Sep, Lit("sub")>>, None), DirT("top", <<Sep, Lit("abs")>>, None)>>,
    <<DirT("top", <<Var("base"), Sep, At("C")>>, None), DirT("outdir", <<Var("top"), Sep, At("S")>>, None)>>,
    <<DirT("outdir", <<Var("top"), Sep, At("S")>>, "S"), DirT("top", <<Lit("rel")>>, None)>> }

\* the declarations of summary_file considered
FileDecls ==
  { FileT("summary_file", tpl, "outdir", lvl) :
      tpl \in { <<Lit("summary.txt")>>, <<At("S"), Lit(".txt")>> },
      lvl \in { None, "S", "C" } }

\* orphan_file names a directory no mkdir line declares
OrphanFile == FileT("orphan_file", <<Lit("orphan.txt")>>, "nodir", "S")

\* the value an instance gives a property named like a file key
PropValue(inst) ==
  CASE inst = "i1" -> <<Sep, Lit("custom"), Sep, Lit("out.txt")>>
    [] inst = "i2" -> <<Sep, Lit("raw"), Sep, Lit(".."), Sep, Lit("out.txt")>>
    [] OTHER -> <<Var("outdir"), Sep, Lit("f.txt")>>

\* which instances carry a property named like which file key
PropSets == { P \in SUBSET (SeqToSet(InstNames) \X FileKeys) : Cardinality(P) <= MaxProps }

PropsOf(inst, P) == [key \in { q[2] : q \in { r \in P : r[1] = inst } } |-> PropValue(inst)]

\* the parent links of the metadata, (instance, parent) pairs
LinkSets == { E \in SUBSET (SeqToSet(InstNames) \X SeqToSet(ParentNames)) : Cardinality(E) <= MaxLinks }

\* Instance.parents, in the order of the 'parent' lines
ParentsOf(inst, E) == SelectSeq(ParentNames, LAMBDA p : <<inst, p>> \in E)

\* the class of each instance ("" for an instance no 'class' line names)
ClassPatterns == { <<"S", "C", "C">>, <<"S", "S", "C">>, <<"", "S", "S">> }

\* an instance without a class is in meta.instances through some other line
NoteProps(cls) == IF cls = "" THEN [key \in {"note"} |-> <<Lit("n")>>] ELSE EmptyMap

Variables == [name \in {"base"} |-> <<Sep, Lit("data")>>]

\* two samples under one cohort; the templates and overrides vary
CfgInputs ==
  { [cfg |-> [variables |-> Variables, dirs |-> dirs, files |-> <<f, OrphanFile>>],
     meta |-> [keys |-> EmptyMap,
               instances |-> << Inst("i1", "S", <<"i3">>, PropsOf("i1", P)),
                                Inst("i2", "S", <<"i3">>, PropsOf("i2", P)),
                                Inst("i3", "C", <<>>, PropsOf("i3", P)) >>]] :
      dirs \in DirConfigs, f \in FileDecls, P \in PropSets }

\* one configuration; the parent graph and the classes vary
GraphInputs ==
  { [cfg |-> [variables |-> Variables,
              dirs |-> <<DirT("outdir", <<Var("base"), Sep, At("S")>>, None)>>,
              files |-> <<FileT("summary_file", <<At("C"), Lit(".txt")>>, "outdir", "S"),
                          OrphanFile>>],
     meta |-> [keys |-> EmptyMap,
               instances |-> [i \in 1..Len(InstNames) |->
                                Inst(InstNames[i], cp[i], ParentsOf(InstNames[i], E),
                                     NoteProps(cp[i]))]]] :
      E \in LinkSets, cp \in ClassPatterns }

\* no resolver is constructed yet
Init ==
  /\ cfg = [variables |-> EmptyMap, dirs |-> <<>>, files |-> <<>>]
  /\ meta = [keys |-> EmptyMap, instances |-> <<>>]
  /\ pc = "new"
  /\ varmap = EmptyMap
  /\ concrete_dirs = EmptyMap
  /\ bootPass = 0
  /\ bootChanged = TRUE
  /\ ancestry = EmptyMap
  /\ ancPass = 0
  /\ ancChanged = TRUE
  /\ ancIdx = 1
  /\ ctxOf = EmptyMap
  /\ bfsIdx = 1
  /\ bfsRun = FALSE
  /\ ctx = EmptyMap
  /\ to_visit = <<>>
  /\ seen = {}
  /\ visits = [n \in SeqToSet(ParentNames) |-> 0]
  /\ index = EmptyMap
  /\ fileIdx = 1
  /\ out = [op |-> "none"]

\* LapResolver(cfg, meta, cwd) is called: lines 195-202
New ==
  /\ pc = "new"
  /\ \E in \in CfgInputs \cup GraphInputs :
       /\ cfg' = in.cfg
       /\ meta' = in.meta
       /\ varmap' = Merge(in.cfg.variables, in.meta.keys)
  /\ concrete_dirs' = EmptyMap
  /\ pc' = "bootstrap"
  /\ UNCHANGED <<bootPass, bootChanged, ancestry, ancPass, ancChanged, ancIdx, ctxOf, bfsIdx, bfsRun,
                 ctx, to_visit, seen, visits, index, fileIdx, out>>

----------------------------------------------------------------------------
(* _bootstrap_concrete_dirs *)

\* range(8)
BootCap == 8

\* the body of 'for name, d in self.cfg.dirs.items()' for one directory;
\* st = [vm |-> self.varmap, cd |-> self.concrete_dirs, ch |-> changed]
BootVisit(d, st) ==
  LET expanded == _expand_dollars(d.template, Merge(st.vm, st.cd))
      path == IF isabs(expanded) THEN expanded ELSE _norm_join(Cwd, expanded)
  IN IF d.name \in DOMAIN st.cd THEN st
     ELSE IF HasAt(expanded)
          THEN [st EXCEPT !.vm = Put(st.vm, d.name, expanded)]
     ELSE [vm |-> Put(st.vm, d.name, path),
           cd |-> Put(st.cd, d.name, path),
           ch |-> TRUE]

\* 'for name, d in self.cfg.dirs.items()', from directory i on
RECURSIVE BootInner(_, _, _)
BootInner(dirs, i, st) ==
  IF i > Len(dirs) THEN st
  ELSE BootInner(dirs, i + 1, BootVisit(dirs[i], st))

\* one pass of 'for _ in range(8)'
BootstrapPass ==
  /\ pc = "bootstrap"
  /\ bootPass < BootCap
  /\ bootChanged
  /\ LET st == BootInner(cfg.dirs, 1, [vm |-> varmap, cd |-> concrete_dirs, ch |-> FALSE])
     IN /\ varmap' = st.vm
        /\ concrete_dirs' = st.cd
        /\ bootChanged' = st.ch
  /\ bootPass' = bootPass + 1
  /\ UNCHANGED <<cfg, meta, pc, ancestry, ancPass, ancChanged, ancIdx, ctxOf, bfsIdx, bfsRun,
                 ctx, to_visit, seen, visits, index, fileIdx, out>>

\* the loop ends: the range is exhausted or 'if not changed: break'
BootstrapReturn ==
  /\ pc = "bootstrap"
  /\ (bootPass = BootCap \/ ~bootChanged)
  /\ pc' = "ancestry_call"
  /\ UNCHANGED <<cfg, meta, varmap, concrete_dirs, bootPass, bootChanged, ancestry, ancPass,
                 ancChanged, ancIdx, ctxOf, bfsIdx, bfsRun, ctx, to_visit, seen, visits, index,
                 fileIdx, out>>

----------------------------------------------------------------------------
(* _compute_ancestry *)

\* range(64)
AncestryCap == 64

\* meta.instances.keys()
Declared == { meta.instances[i].name : i \in 1..Len(meta.instances) }

\* meta.instances[name]
InstObj(name) == meta.instances[CHOOSE i \in 1..Len(meta.instances) : meta.instances[i].name = name]

\* closure before the first pass: {inst: set(obj.parents)}
DirectParents == [n \in Declared |-> SeqToSet(InstObj(n).parents)]

\* AncVisit with 'changed = True' left out: the loop ends after its first pass
AncVisitFlagLost(inst, st) ==
  LET new_set == st.cl[inst] \cup
                 UNION { IF p \in DOMAIN st.cl THEN st.cl[p] ELSE {} : p \in st.cl[inst] }
  IN IF Cardinality(new_set) > Cardinality(st.cl[inst])
     THEN [st EXCEPT !.cl[inst] = new_set]
     ELSE st

\* the body of 'for inst in list(closure.keys())' for one instance;
\* st = [cl |-> closure, ch |-> changed]
AncVisit(inst, st) ==
  LET new_set == st.cl[inst] \cup
                 UNION { IF p \in DOMAIN st.cl THEN st.cl[p] ELSE {} : p \in st.cl[inst] }
  IN IF Cardinality(new_set) > Cardinality(st.cl[inst])
     THEN [cl |-> [st.cl EXCEPT ![inst] = new_set], ch |-> TRUE]
     ELSE st

\* lines 231-233: closure and changed before the loop
AncestryCall ==
  /\ pc = "ancestry_call"
  /\ ancestry' = DirectParents
  /\ ancChanged' = TRUE
  /\ ancPass' = 0
  /\ ancIdx' = Len(meta.instances) + 1
  /\ pc' = "ancestry"
  /\ UNCHANGED <<cfg, meta, varmap, concrete_dirs, bootPass, bootChanged, ctxOf, bfsIdx,
                 bfsRun, ctx, to_visit, seen, visits, index, fileIdx, out>>

\* a pass of 'for _ in range(64)' starts: 'changed = False'
AncestryPass ==
  /\ pc = "ancestry"
  /\ ancIdx > Len(meta.instances)
  /\ ancPass < AncestryCap
  /\ ancChanged
  /\ ancChanged' = FALSE
  /\ ancPass' = ancPass + 1
  /\ ancIdx' = 1
  /\ UNCHANGED <<cfg, meta, pc, varmap, concrete_dirs, bootPass, bootChanged, ancestry, ctxOf,
                 bfsIdx, bfsRun, ctx, to_visit, seen, visits, index, fileIdx, out>>

\* one iteration of 'for inst in list(closure.keys())'
AncestryVisit ==
  /\ pc = "ancestry"
  /\ ancIdx <= Len(meta.instances)
  /\ LET st == AncVisit(meta.instances[ancIdx].name, [cl |-> ancestry, ch |-> ancChanged])
     IN /\ ancestry' = st.cl
        /\ ancChanged' = st.ch
  /\ ancIdx' = ancIdx + 1
  /\ UNCHANGED <<cfg, meta, pc, varmap, concrete_dirs, bootPass, bootChanged, ancPass, ctxOf,
                 bfsIdx, bfsRun, ctx, to_visit, seen, visits, index, fileIdx, out>>

\* 'return closure': the range is exhausted or 'if not changed: break'
AncestryReturn ==
  /\ pc = "ancestry"
  /\ ancIdx > Len(meta.instances)
  /\ (ancPass = AncestryCap \/ ~ancChanged)
  /\ pc' = "context"
  /\ UNCHANGED <<cfg, meta, varmap, concrete_dirs, bootPass, bootChanged, ancestry, ancPass,
                 ancChanged, ancIdx, ctxOf, bfsIdx, bfsRun, ctx, to_visit, seen, visits, index,
                 fileIdx, out>>

----------------------------------------------------------------------------
(* _build_context_from_instance, once for each declared instance.  The      *)
(* function reads self.meta only, so the contexts _build_index asks for are *)
(* computed here, before it, and kept in ctxOf.                             *)

\* lines 284-290: ctx, to_visit and seen before the loop
ContextCall ==
  /\ pc = "context"
  /\ ~bfsRun
  /\ bfsIdx <= Len(meta.instances)
  /\ LET inst_obj == meta.instances[bfsIdx]
         cls == inst_obj.class_name
     IN /\ ctx' = IF cls # "" THEN Put(EmptyMap, AtKey(cls), inst_obj.name) ELSE EmptyMap
        /\ to_visit' = inst_obj.parents
  /\ seen' = {}
  /\ visits' = [n \in SeqToSet(ParentNames) |-> 0]
  /\ bfsRun' = TRUE
  /\ UNCHANGED <<cfg, meta, pc, varmap, concrete_dirs, bootPass, bootChanged, ancestry,
                 ancPass, ancChanged, ancIdx, ctxOf, bfsIdx, index, fileIdx, out>>

\* ContextVisit without the test 'not in ctx': a farther ancestor overwrites
ContextVisitOverwrite(p, st) ==
  IF p \in st.seen THEN st
  ELSE IF p \notin Declared
       THEN [st EXCEPT !.seen = @ \cup {p}, !.visits[p] = @ + 1]
  ELSE LET pobj == InstObj(p)
       IN [ctx |-> IF pobj.class_name # ""
                   THEN Put(st.ctx, AtKey(pobj.class_name), p) ELSE st.ctx,
           to_visit |-> st.to_visit \o pobj.parents,
           seen |-> st.seen \cup {p},
           visits |-> [st.visits EXCEPT ![p] = @ + 1]]

\* ContextVisit without the test 'if p in seen: continue'
ContextVisitNoSeen(p, st) ==
  IF p \notin Declared
  THEN [st EXCEPT !.seen = @ \cup {p}, !.visits[p] = @ + 1]
  ELSE LET pobj == InstObj(p)
           key == AtKey(pobj.class_name)
       IN [ctx |-> IF pobj.class_name # "" /\ key \notin DOMAIN st.ctx
                   THEN Put(st.ctx, key, p) ELSE st.ctx,
           to_visit |-> st.to_visit \o pobj.parents,
           seen |-> st.seen \cup {p},
           visits |-> [st.visits EXCEPT ![p] = @ + 1]]

\* one iteration of 'while to_visit', p = to_visit.pop(0);
\* st = [ctx, to_visit, seen, visits] after the pop
ContextVisit(p, st) ==
  IF p \in st.seen THEN st
  ELSE IF p \notin Declared
       THEN [st EXCEPT !.seen = @ \cup {p}, !.visits[p] = @ + 1]
  ELSE LET pobj == InstObj(p)
           key == AtKey(pobj.class_name)
       IN [ctx |-> IF pobj.class_name # "" /\ key \notin DOMAIN st.ctx
                   THEN Put(st.ctx, key, p) ELSE st.ctx,
           to_visit |-> st.to_visit \o pobj.parents,
           seen |-> st.seen \cup {p},
           visits |-> [st.visits EXCEPT ![p] = @ + 1]]

ContextStep ==
  /\ pc = "context"
  /\ bfsRun
  /\ to_visit # <<>>
  /\ LET st == ContextVisit(Head(to_visit),
                            [ctx |-> ctx, to_visit |-> Tail(to_visit), seen |-> seen,
                             visits |-> visits])
     IN /\ ctx' = st.ctx
        /\ to_visit' = st.to_visit
        /\ seen' = st.seen
        /\ visits' = st.visits
  /\ UNCHANGED <<cfg, meta, pc, varmap, concrete_dirs, bootPass, bootChanged, ancestry,
                 ancPass, ancChanged, ancIdx, ctxOf, bfsIdx, bfsRun, index, fileIdx, out>>

\* 'return ctx'
ContextReturn ==
  /\ pc = "context"
  /\ bfsRun
  /\ to_visit = <<>>
  /\ ctxOf' = Put(ctxOf, meta.instances[bfsIdx].name, ctx)
  /\ bfsIdx' = bfsIdx + 1
  /\ bfsRun' = FALSE
  /\ UNCHANGED <<cfg, meta, pc, varmap, concrete_dirs, bootPass, bootChanged, ancestry,
                 ancPass, ancChanged, ancIdx, ctx, to_visit, seen, visits, index, fileIdx, out>>

ContextsDone ==
  /\ pc = "context"
  /\ ~bfsRun
  /\ bfsIdx > Len(meta.instances)
  /\ pc' = "index"
  /\ UNCHANGED <<cfg, meta, varmap, concrete_dirs, bootPass, bootChanged, ancestry, ancPass,
                 ancChanged, ancIdx, ctxOf, bfsIdx, bfsRun, ctx, to_visit, seen, visits, index,
                 fileIdx, out>>

\* _build_context_from_instance(inst) as _build_index uses it
_build_context_from_instance(inst) == IF inst \in Declared THEN Some(ctxOf[inst]) ELSE Nothing

----------------------------------------------------------------------------
(* _build_index *)

\* self.cfg.dirs.get(name): the directory template, or None
DirGet(name) ==
  IF \E i \in 1..Len(cfg.dirs) : cfg.dirs[i].name = name
  THEN Some(cfg.dirs[CHOOSE i \in 1..Len(cfg.dirs) : cfg.dirs[i].name = name])
  ELSE Nothing

\* meta.by_class.get(class_level, []): insertion order of meta.instances
ByClass(class_level) ==
  LET names == [i \in 1..Len(meta.instances) |-> meta.instances[i].name]
  IN SelectSeq(names, LAMBDA n : InstObj(n).class_name # "" /\ InstObj(n).class_name = class_level)

_expand_placeholders(s, ph) == SubAt(_expand_dollars(s, Merge(varmap, concrete_dirs)), ph)

\* None when a placeholder is left
_resolve_dir(d, ph) ==
  LET s == _expand_placeholders(d.template, ph)
  IN IF HasAt(s) THEN Nothing
     ELSE IF isabs(s) THEN Some(s) ELSE Some(_norm_join(Cwd, s))

\* the contexts with the instance each was built from (by: a history field,
\* None for the one empty context)
RECURSIVE ContextsOf(_)
ContextsOf(inst_names) ==
  IF inst_names = <<>> THEN <<>>
  ELSE LET c == _build_context_from_instance(Head(inst_names))
       IN (IF c.some /\ c.v # EmptyMap THEN <<[by |-> Head(inst_names), ctx |-> c.v]>> ELSE <<>>)
          \o ContextsOf(Tail(inst_names))

_contexts_for_class_level(class_level) ==
  IF class_level = None \/ class_level = ""
  THEN <<[by |-> None, ctx |-> EmptyMap]>>
  ELSE ContextsOf(ByClass(class_level))

\* the tag of a record the template loop emits
TemplateSource == "out"

\* the tag of a record the property loop emits
RawSource == "raw"

\* an index record; loop and by are history fields (the loop that emitted the
\* record and the instance it was emitted for), the rest is the dict of the code
Rec(path, placeholders, class_level, source, loop, by) ==
  [path |-> path, placeholders |-> placeholders, class_level |-> class_level,
   source |-> source, loop |-> loop, by |-> by]

\* 'for inst_name, inst in self.meta.instances.items()' from instance i on:
\* the records to append
RECURSIVE RawRecords(_, _)
RawRecords(ftemp, i) ==
  IF i > Len(meta.instances) THEN <<>>
  ELSE LET inst == meta.instances[i]
           expanded == _expand_dollars(inst.props[ftemp.name], Merge(varmap, concrete_dirs))
           path == IF isabs(expanded) THEN expanded ELSE _norm_join(Cwd, expanded)
           c == _build_context_from_instance(inst.name)
       IN (IF ftemp.name \in DOMAIN inst.props
           THEN <<Rec(path, IF c.some THEN c.v ELSE EmptyMap, ftemp.class_level,
                      RawSource, "props", inst.name)>>
           ELSE <<>>)
          \o RawRecords(ftemp, i + 1)

\* 'for base_ctx in contexts': the records to append
RECURSIVE TemplateRecords(_, _, _)
TemplateRecords(ftemp, dtemp, contexts) ==
  IF contexts = <<>> THEN <<>>
  ELSE LET base_ctx == Head(contexts).ctx
           full_dir == _resolve_dir(dtemp, base_ctx)
           fname_expanded == _expand_placeholders(ftemp.tpl, base_ctx)
       IN (IF ~full_dir.some \/ HasAt(fname_expanded) THEN <<>>
           ELSE <<Rec(_norm_join(full_dir.v, fname_expanded), base_ctx, ftemp.class_level,
                      TemplateSource, "contexts", Head(contexts).by)>>)
          \o TemplateRecords(ftemp, dtemp, Tail(contexts))

\* the contexts of a file template
ContextsForFile(ftemp, dtemp) == _contexts_for_class_level(ftemp.class_level)

\* self.index.setdefault(fname, []).append(...) for each record
Extend(idx, fname, recs) ==
  IF recs = <<>> THEN idx
  ELSE Put(idx, fname, (IF fname \in DOMAIN idx THEN idx[fname] ELSE <<>>) \o recs)

\* FileRecords with the two loops in the other order
FileRecordsTemplateFirst(ftemp, dtemp) ==
  TemplateRecords(ftemp, dtemp, ContextsForFile(ftemp, dtemp)) \o RawRecords(ftemp, 1)

\* the records of a file template whose directory template is declared
FileRecords(ftemp, dtemp) ==
  RawRecords(ftemp, 1) \o TemplateRecords(ftemp, dtemp, ContextsForFile(ftemp, dtemp))

\* IndexFile with the property loop ahead of the test 'if not dtemp: continue'
IndexFileRawFirst(idx, ftemp) ==
  LET dtemp == DirGet(ftemp.dir_ref)
  IN IF ~dtemp.some THEN Extend(idx, ftemp.name, RawRecords(ftemp, 1))
     ELSE Extend(idx, ftemp.name, FileRecords(ftemp, dtemp.v))

\* one iteration of 'for fname, ftemp in self.cfg.files.items()'
IndexFile(idx, ftemp) ==
  LET dtemp == DirGet(ftemp.dir_ref)
  IN IF ~dtemp.some THEN idx
     ELSE Extend(idx, ftemp.name, FileRecords(ftemp, dtemp.v))

BuildIndexStep ==
  /\ pc = "index"
  /\ fileIdx <= Len(cfg.files)
  /\ index' = IndexFile(index, cfg.files[fileIdx])
  /\ fileIdx' = fileIdx + 1
  /\ UNCHANGED <<cfg, meta, pc, varmap, concrete_dirs, bootPass, bootChanged, ancestry,
                 ancPass, ancChanged, ancIdx, ctxOf, bfsIdx, bfsRun, ctx, to_visit, seen, visits, out>>

\* __init__ returns
BuildIndexReturn ==
  /\ pc = "index"
  /\ fileIdx > Len(cfg.files)
  /\ pc' = "ready"
  /\ UNCHANGED <<cfg, meta, varmap, concrete_dirs, bootPass, bootChanged, ancestry, ancPass,
                 ancChanged, ancIdx, ctxOf, bfsIdx, bfsRun, ctx, to_visit, seen, visits, index,
                 fileIdx, out>>

----------------------------------------------------------------------------
(* get and records *)

\* k.startswith("@")
StartsWithAt(k) == k \in { AtKey(c) : c \in ClassNames }

\* the dict comprehension of norm_filters over the keyword arguments, a
\* sequence of <<key, value>> pairs
RECURSIVE NormFilters(_)
NormFilters(filters) ==
  IF filters = <<>> THEN EmptyMap
  ELSE LET kv == filters[Len(filters)]
           key == IF StartsWithAt(kv[1]) THEN kv[1] ELSE AtKey(kv[1])
       IN Put(NormFilters(SubSeq(filters, 1, Len(filters) - 1)), key, kv[2])

\* all(ctx.get(k) == v for k, v in norm_filters.items())
Matches(rec, nf) == \A k \in DOMAIN nf : k \in DOMAIN rec.placeholders /\ rec.placeholders[k] = nf[k]

\* SourceOk without the test 'source and': no source given matches no record
SourceOkStrict(rec, source) == rec.source = source

\* the record passes 'if source and rec["source"] != source: continue'
SourceOk(rec, source) == source = None \/ source = "" \/ rec.source = source

RECURSIVE GetLoop(_, _, _)
GetLoop(recs, source, nf) ==
  IF recs = <<>> THEN <<>>
  ELSE (IF Matches(Head(recs), nf) /\ SourceOk(Head(recs), source)
        THEN <<Head(recs).path>> ELSE <<>>)
       \o GetLoop(Tail(recs), source, nf)

get(file_key, source, filters) ==
  IF file_key \notin DOMAIN index THEN <<>>
  ELSE GetLoop(index[file_key], source, NormFilters(filters))

records(file_key, filters) ==
  IF file_key \notin DOMAIN index THEN <<>>
  ELSE SelectSeq(index[file_key], LAMBDA rec : Matches(rec, NormFilters(filters)))

\* the arguments of the queries considered
QueryKeys == FileKeys \cup {"no_such_file"}
Sources == {None, "raw", "template"}
FilterArgs == { <<>>, << <<"S", "i1">> >>, << <<"@S", "i2">>, <<"C", "i3">> >> }

Get ==
  /\ pc = "ready"
  /\ \E file_key \in QueryKeys, source \in Sources, filters \in FilterArgs :
       out' = [op |-> "get", file_key |-> file_key, source |-> source, filters |-> filters,
               result |-> get(file_key, source, filters)]
  /\ UNCHANGED <<cfg, meta, pc, varmap, concrete_dirs, bootPass, bootChanged, ancestry,
                 ancPass, ancChanged, ancIdx, ctxOf, bfsIdx, bfsRun, ctx, to_visit, seen, visits,
                 index, fileIdx>>

Records ==
  /\ pc = "ready"
  /\ \E file_key \in QueryKeys, filters \in FilterArgs :
       out' = [op |-> "records", file_key |-> file_key, source |-> None, filters |-> filters,
               result |-> records(file_key, filters)]
  /\ UNCHANGED <<cfg, meta, pc, varmap, concrete_dirs, bootPass, bootChanged, ancestry,
                 ancPass, ancChanged, ancIdx, ctxOf, bfsIdx, bfsRun, ctx, to_visit, seen, visits,
                 index, fileIdx>>

----------------------------------------------------------------------------

\* the steps of LapResolver.__init__
Construct ==
  \/ BootstrapPass \/ BootstrapReturn
  \/ AncestryCall \/ AncestryPass \/ AncestryVisit \/ AncestryReturn
  \/ ContextCall \/ ContextStep \/ ContextReturn \/ ContextsDone
  \/ BuildIndexStep \/ BuildIndexReturn

Next == New \/ Construct \/ Get \/ Records

Spec == Init /\ [][Next]_vars

\* a step of __init__ is pending: the guards of the steps of Construct cover
\* every state between the call and the return
Running == pc \notin {"new", "ready"}

\* The constructor alone.  It is one synchronous call: once called it keeps
\* running until it returns, which is weak fairness of Construct,
\* WF_vars(Construct), written out with ENABLED <<Construct>>_vars as Running.
FairSpec == Init /\ [][New \/ Construct]_vars /\ ([]<>~Running \/ []<><<Construct>>_vars)

----------------------------------------------------------------------------
(* Vocabulary of the properties *)

Paths(recs) == [i \in 1..Len(recs) |-> recs[i].path]

\* the records of a key, <<>> for a key without an index entry
IndexOf(key) == IF key \in DOMAIN index THEN index[key] ELSE <<>>

\* position of x in a sequence without repetitions
Pos(seq, x) == CHOOSE i \in 1..Len(seq) : seq[i] = x

\* a is b with some elements left out
RECURSIVE IsSubseq(_, _)
IsSubseq(a, b) ==
  IF a = <<>> THEN TRUE
  ELSE IF b = <<>> THEN FALSE
  ELSE IF Head(a) = Head(b) THEN IsSubseq(Tail(a), Tail(b))
  ELSE IsSubseq(a, Tail(b))

\* the parent links: the names the 'parent' lines of a give
ParentLinks(a) == IF a \in Declared THEN SeqToSet(InstObj(a).parents) ELSE {}

\* the names reached from a by 1..k parent links
RECURSIVE ReachWithin(_, _)
ReachWithin(a, k) ==
  IF k <= 1 THEN ParentLinks(a)
  ELSE LET r == ReachWithin(a, k - 1)
       IN r \cup UNION { ParentLinks(b) : b \in r }

\* the names reached from a by one or more parent links
Reach(a) == ReachWithin(a, Len(ParentNames))

\* the least number of parent links from a to b, for b in Reach(a)
Dist(a, b) == CHOOSE k \in 1..Len(ParentNames) :
                /\ b \in ReachWithin(a, k)
                /\ k > 1 => b \notin ReachWithin(a, k - 1)

\* the declared ancestors of a whose class is c
AncestorsOfClass(a, c) == { b \in Reach(a) \cap Declared : InstObj(b).class_name = c }

InstanceOrder == [i \in 1..Len(meta.instances) |-> meta.instances[i].name]

KnownDirs == { cfg.dirs[i].name : i \in 1..Len(cfg.dirs) }

FilesOf == { cfg.files[i] : i \in 1..Len(cfg.files) }

DirsOf == { cfg.dirs[i] : i \in 1..Len(cfg.dirs) }

Tokens(s) == { s[i] : i \in 1..Len(s) }

Constructed == pc = "ready"

----------------------------------------------------------------------------
(* The claims *)

\* C1: every record the template loop of _build_index emits carries source
\* "template" and every record the property loop emits carries source "raw";
\* so get(key, source="template") is the paths of the template-derived records
\* of key and get(key, source="raw") the paths of the raw overrides.
C1_SourceTagsTemplateAndRaw ==
  /\ \A key \in DOMAIN index : \A i \in 1..Len(index[key]) :
       /\ index[key][i].loop = "contexts" => index[key][i].source = "template"
       /\ index[key][i].loop = "props" => index[key][i].source = "raw"
  /\ Constructed =>
       \A key \in QueryKeys :
         /\ get(key, "template", <<>>)
              = Paths(SelectSeq(IndexOf(key), LAMBDA rec : rec.loop = "contexts"))
         /\ get(key, "raw", <<>>)
              = Paths(SelectSeq(IndexOf(key), LAMBDA rec : rec.loop = "props"))

\* C2: after construction every record of the index, raw override or
\* template-derived, has a path that is absolute, normalized and free of
\* '@' placeholder tokens.
C2_IndexPathsConcrete ==
  Constructed =>
    \A key \in DOMAIN index : \A i \in 1..Len(index[key]) :
      LET path == index[key][i].path
      IN isabs(path) /\ normpath(path) = path /\ ~HasAt(path)

\* C3: for every file key, known or not, and every filter set F, get(key, F)
\* without a source argument is the list of the path fields of
\* records(key, F), in the same order.
C3_GetIsPathsOfRecords ==
  Constructed =>
    \A key \in QueryKeys, filters \in FilterArgs :
      get(key, None, filters) = Paths(records(key, filters))

\* a get without source whose filters kept some records of a key and dropped
\* others, among them raw and template-derived ones
C3_Witness ==
  /\ Constructed
  /\ out.op = "get" /\ out.source = None /\ out.filters # <<>>
  /\ out.result # <<>>
  /\ Len(out.result) < Len(IndexOf(out.file_key))
  /\ \E r1, r2 \in SeqToSet(records(out.file_key, out.filters)) :
       r1.loop = "props" /\ r2.loop = "contexts"

\* C4: after _compute_ancestry, ancestry[A] of every declared instance A is
\* exactly the set of names reached from A by one or more parent links, for
\* every parent graph (cycles, self-parents, undeclared parents included).
C4_AncestryIsReachability ==
  pc \in {"context", "index", "ready"} =>
    \A a \in Declared : ancestry[a] = Reach(a)

\* A's parents include B, B's include C, C is no parent of A, the closure of
\* A holds C; and the graph has an undeclared parent
C4_Witness ==
  /\ pc = "context"
  /\ \E a, b \in Declared : \E c \in SeqToSet(ParentNames) :
       /\ b \in ParentLinks(a) /\ c \in ParentLinks(b) /\ c \notin ParentLinks(a)
       /\ c \in ancestry[a]
       /\ Ghost \in ancestry[a]

\* C5: in the context built for a declared instance I, '@class(I)' maps to I
\* when I has a class, and every other key '@C' maps to a declared ancestor of
\* I of class C at the least parent-link distance among I's ancestors of
\* class C.
C5_ContextTakesClosestAncestor ==
  pc \in {"index", "ready"} =>
    \A i \in Declared :
      LET own == InstObj(i).class_name
      IN /\ own # "" => (AtKey(own) \in DOMAIN ctxOf[i] /\ ctxOf[i][AtKey(own)] = i)
         /\ \A c \in ClassNames :
              (AtKey(c) \in DOMAIN ctxOf[i] /\ c # own) =>
                LET b == ctxOf[i][AtKey(c)]
                IN /\ b \in AncestorsOfClass(i, c)
                   /\ \A b2 \in AncestorsOfClass(i, c) : Dist(i, b) <= Dist(i, b2)

\* an instance with two ancestors of one class, not its own, at different
\* distances; its context holds the closer one
C5_Witness ==
  /\ pc = "index"
  /\ \E i \in Declared : \E c \in ClassNames :
       /\ c # InstObj(i).class_name
       /\ \E b1, b2 \in AncestorsOfClass(i, c) :
            /\ Dist(i, b1) < Dist(i, b2)
            /\ ctxOf[i][AtKey(c)] = b1

\* C6: the list of every file key holds the raw-override records before the
\* template-derived ones, the raw records in the order of meta.instances and
\* the template-derived ones in the order of the class_level class's instance
\* list; get and records return their matches as a subsequence of that list.
C6_IndexOrder ==
  /\ \A f \in FilesOf : \A i, j \in 1..Len(IndexOf(f.name)) :
       LET ri == IndexOf(f.name)[i]
           rj == IndexOf(f.name)[j]
       IN i < j =>
            /\ ~(ri.loop = "contexts" /\ rj.loop = "props")
            /\ (ri.loop = "props" /\ rj.loop = "props")
                 => Pos(InstanceOrder, ri.by) < Pos(InstanceOrder, rj.by)
            /\ (ri.loop = "contexts" /\ rj.loop = "contexts")
                 => Pos(ByClass(f.class_level), ri.by) < Pos(ByClass(f.class_level), rj.by)
  /\ out.op = "get" => IsSubseq(out.result, Paths(IndexOf(out.file_key)))
  /\ out.op = "records" => IsSubseq(out.result, IndexOf(out.file_key))

\* a key with two raw and two template-derived records, and a get that
\* returned one of each
C6_Witness ==
  /\ out.op = "get"
  /\ LET recs == IndexOf(out.file_key)
     IN /\ Len(recs) >= 4
        /\ recs[1].loop = "props" /\ recs[2].loop = "props"
        /\ recs[Len(recs) - 1].loop = "contexts" /\ recs[Len(recs)].loop = "contexts"
        /\ out.result = <<recs[2].path, recs[Len(recs)].path>>

\* C7: a file template whose dir_ref names no declared directory template has
\* no entry in the index, also when an instance carries a property named like
\* it; get and records return the empty list for it, as for a key that was
\* never declared.
C7_UnknownDirRefAbsent ==
  \A f \in FilesOf :
    f.dir_ref \notin KnownDirs =>
      /\ f.name \notin DOMAIN index
      /\ Constructed =>
           \A source \in Sources, filters \in FilterArgs :
             /\ get(f.name, source, filters) = <<>>
             /\ records(f.name, filters) = <<>>
             /\ get(f.name, source, filters) = get("no_such_file", source, filters)
             /\ records(f.name, filters) = records("no_such_file", filters)

\* an instance carries a property named orphan_file, the other key is
\* indexed, and a get of orphan_file returned the empty list
C7_Witness ==
  /\ Constructed
  /\ \E i \in 1..Len(meta.instances) : "orphan_file" \in DOMAIN meta.instances[i].props
  /\ "summary_file" \in DOMAIN index
  /\ out.op = "get" /\ out.file_key = "orphan_file" /\ out.source = None
  /\ out.filters = <<>> /\ out.result = <<>>

\* C8: a file template without class_level whose directory template declares
\* class_level C (the templates using no placeholder but @C) has one
\* template-derived record per instance of C.
C8_DirClassLevelGivesContexts ==
  Constructed =>
    \A f \in FilesOf : \A d \in DirsOf :
      ( /\ f.dir_ref = d.name
        /\ f.class_level = None
        /\ d.class_level # None
        /\ At(d.class_level) \in Tokens(d.template)
        /\ \A t \in Tokens(d.template) \cup Tokens(f.tpl) : t.k = "at" => t = At(d.class_level) )
      => [i \in 1..Len(SelectSeq(IndexOf(f.name), LAMBDA rec : rec.loop = "contexts")) |->
            SelectSeq(IndexOf(f.name), LAMBDA rec : rec.loop = "contexts")[i].by]
         = ByClass(d.class_level)

\* C9: after _bootstrap_concrete_dirs, a placeholder-free directory template D1
\* that references $D2, D2 resolved, is resolved with $D2 replaced by
\* concrete_dirs[D2], whichever is declared first; and no entry of
\* concrete_dirs keeps a '$D' token of a declared directory template D.
C9_DirReferencesResolved ==
  pc # "bootstrap" =>
    /\ \A d1, d2 \in DirsOf :
         ( /\ Var(d2.name) \in Tokens(d1.template)
           /\ ~HasAt(d1.template)
           /\ d2.name \in DOMAIN concrete_dirs )
         => /\ d1.name \in DOMAIN concrete_dirs
            /\ LET e == _expand_dollars(d1.template, Merge(cfg.variables, concrete_dirs))
               IN concrete_dirs[d1.name] = IF isabs(e) THEN e ELSE _norm_join(Cwd, e)
    /\ \A name \in DOMAIN concrete_dirs : \A d \in DirsOf :
         Var(d.name) \notin Tokens(concrete_dirs[name])

\* C10: construction terminates for every configuration and metadata, cyclic
\* parent links included: the directory bootstrap runs at most 8 passes, the
\* ancestry loop at most 64, and one walk of _build_context_from_instance
\* visits each name at most once.
C10_ConstructionTerminates ==
  /\ (pc = "bootstrap") ~> Constructed
  /\ [](/\ bootPass <= BootCap
        /\ ancPass <= AncestryCap
        /\ \A n \in SeqToSet(ParentNames) : visits[n] <= 1)

\* construction has returned for metadata with a parent cycle through two
\* instances and a self-parent
C10_Witness ==
  /\ Constructed
  /\ \E a, b \in Declared : a # b /\ a \in ancestry[b] /\ b \in ancestry[a] /\ a \in ParentLinks(a)

====
